---- MODULE Spec2Model ----
(***************************************************************************)
(* A model of the SantaBot engine of sketchy-santabot (common/santa.ts,    *)
(* common/scoring.ts) and of its two callers (index.ts main and            *)
(* simulation.ts).                                                         *)
(*                                                                         *)
(* State: the bot's history map `participants`, its year-count cache       *)
(* `numYearsCache`, and `call`, the record of the last call made on the    *)
(* bot (its arguments, what it returned, and the policy calls it made).    *)
(***************************************************************************)
EXTENDS Integers, Sequences, FiniteSets, TLC

VARIABLES participants, numYearsCache, call

vars == <<participants, numYearsCache, call>>

(***************************************************************************)
(* Bounds of the model.                                                    *)
(***************************************************************************)
\* participant identities the callers draw their lists from
Names == {"A", "B", "C"}
\* the order the callers list them in
NameOrder == <<"A", "B", "C">>
\* seeds the callers pass to the bot are 0..MaxSeed
MaxSeed == 3
\* iteration budgets the callers pass are 0..MaxIter
MaxIter == 2
\* applyArrangement is called while the history holds at most MaxYears years
MaxYears == 2

Seeds == 0..MaxSeed
Iterations == 0..MaxIter

\* the empty marker of a history slot (JavaScript null)
Null == "<null>"

(***************************************************************************)
(* Small helpers on sequences.                                             *)
(***************************************************************************)
Range(s) == {s[i] : i \in DOMAIN s}

NoDuplicates(s) == \A i, j \in DOMAIN s : s[i] = s[j] => i = j

\* a splice that removes the element before the one picked
SpliceOffByOne(s, index) ==
  [i \in 1..(Len(s) - 1) |-> IF i < index THEN s[i] ELSE s[i + 1]]

\* Array.prototype.splice(index, 1) with a 0-based index
Splice(s, index) == [i \in 1..(Len(s) - 1) |-> IF i <= index THEN s[i] ELSE s[i + 1]]

\* Array.prototype.indexOf: 0-based index of the first occurrence, else -1
IndexOf(s, x) ==
  IF \E i \in DOMAIN s : s[i] = x
    THEN (CHOOSE i \in DOMAIN s : s[i] = x /\ \A j \in DOMAIN s : s[j] = x => i <= j) - 1
    ELSE -1

Max(a, b) == IF a > b THEN a ELSE b

\* every duplicate-free list over Names
ParticipantLists ==
  {s \in UNION {[1..n -> Names] : n \in 0..Cardinality(Names)} : NoDuplicates(s)}

(***************************************************************************)
(* The seeded generator.  seedrandom is an external library: it is stood   *)
(* for by a full-period linear congruential generator, so that a stream is *)
(* a deterministic function of its seed and every value recurs.            *)
(***************************************************************************)
Modulus == 16

\* seedrandom(seed.toString(16)): the stream's state from the seed
SeedRandom(seed) ==
  [x |-> (5 * seed) % Modulus, c |-> 2 * ((seed \div Modulus) % 4) + 1]

\* one step of the stream
Advance(rng) == [rng EXCEPT !.x = (5 * rng.x + rng.c) % Modulus]

\* Math.floor(random() * n) read off a state that was just advanced
FloorRandom(rng, n) == (rng.x * n) \div Modulus

\* random.int32() read off a state that was just advanced: a signed integer
Int32(rng) == rng.x - (Modulus \div 2)

\* every value random.int32() returns
SubSeeds == {Int32([x |-> v, c |-> 1]) : v \in 0..(Modulus - 1)}

(***************************************************************************)
(* generateArrangement                                                     *)
(***************************************************************************)
\* the do/while of lines 41-43: draw until the drawn receiver is not the giver
RECURSIVE RejectionSample(_, _, _)
RejectionSample(rng, remainingReceivers, giver) ==
  LET next == Advance(rng)
      index == FloorRandom(next, Len(remainingReceivers))
  IN IF remainingReceivers[index + 1] = giver
       THEN RejectionSample(next, remainingReceivers, giver)
       ELSE [rng |-> next, index |-> index]

\* lines 38-44: the index of the receiver of one giver
PickIndex(rng, remainingReceivers, giver) ==
  IF Len(remainingReceivers) = 1
    THEN [rng |-> rng, index |-> 0]
    ELSE RejectionSample(rng, remainingReceivers, giver)

\* the loop of lines 36-47 from giver number i on
RECURSIVE AssignReceivers(_, _, _, _, _)
AssignReceivers(plist, i, rng, remainingReceivers, preSortedResult) ==
  IF i > Len(plist)
    THEN preSortedResult
    ELSE LET giver == plist[i]
             pick == PickIndex(rng, remainingReceivers, giver)
         IN AssignReceivers(plist, i + 1, pick.rng,
                            Splice(remainingReceivers, pick.index),
                            Append(preSortedResult,
                                   <<giver, remainingReceivers[pick.index + 1]>>))

\* preSortedResult.find(([x]) => x === currentGiver)
FindPair(preSortedResult, currentGiver) ==
  preSortedResult[CHOOSE i \in DOMAIN preSortedResult :
                    /\ preSortedResult[i][1] = currentGiver
                    /\ \A j \in DOMAIN preSortedResult :
                         preSortedResult[j][1] = currentGiver => i <= j]

\* the while of lines 52-57: follow the chain from currentGiver
RECURSIVE WalkRing(_, _, _)
WalkRing(preSortedResult, currentGiver, acc) ==
  IF currentGiver \in acc.seenGivers
    THEN acc
    ELSE LET foundPair == FindPair(preSortedResult, currentGiver)
         IN WalkRing(preSortedResult, foundPair[2],
                     [seenGivers |-> acc.seenGivers \cup {currentGiver},
                      result |-> Append(acc.result, foundPair)])

\* the pairs returned in the order they were drawn
ReWalkSkipped(plist, i, preSortedResult, acc) == preSortedResult

\* the loop of lines 50-58 from giver number i on
RECURSIVE ReWalk(_, _, _, _)
ReWalk(plist, i, preSortedResult, acc) ==
  IF i > Len(plist)
    THEN acc.result
    ELSE ReWalk(plist, i + 1, preSortedResult,
                WalkRing(preSortedResult, plist[i], acc))

\* generateArrangement(seed, participants): it has no throw statement, so it
\* returns for every list
generateArrangement(seed, plist) ==
  LET preSortedResult == AssignReceivers(plist, 1, SeedRandom(seed), plist, <<>>)
  IN ReWalk(plist, 1, preSortedResult, [seenGivers |-> {}, result |-> <<>>])

(***************************************************************************)
(* The penalty policies (interface Scoring).  "repo" is the repository's   *)
(* scoring; the others are policies a caller may supply: "zero" returns 0  *)
(* always, "example" charges 10 for GaveTo and 5 for ReceivedFrom one year *)
(* ago and nothing for rings, "flat" charges 1 for every arrangement.      *)
(***************************************************************************)
GaveTo == "GaveTo"
ReceivedFrom == "ReceivedFrom"

Policies == {"repo", "zero", "example", "flat"}

\* scoring.actions
repoActions(action, yearsAgo) ==
  IF action = GaveTo
    THEN Max(10 - yearsAgo + 1, 0)
    ELSE IF action = ReceivedFrom
      THEN IF yearsAgo = 1 THEN 5 ELSE IF yearsAgo < 10 THEN 1 ELSE 0
      ELSE 0

\* scoring.rings
repoRings(ringSizes) ==
  IF IndexOf(ringSizes, 1) # -1
    THEN 1000
    ELSE IF Len(ringSizes) > 1
      THEN IF IndexOf(ringSizes, 2) # -1 THEN 10 ELSE 5
      ELSE 0

\* scoreFns.actions(action, yearsAgo) of a policy
Actions(policy, action, yearsAgo) ==
  CASE policy = "repo" -> repoActions(action, yearsAgo)
    [] policy = "example" ->
         IF yearsAgo = 1 THEN (IF action = GaveTo THEN 10 ELSE 5) ELSE 0
    [] OTHER -> 0

\* scoreFns.rings(ringSizes) of a policy
Rings(policy, ringSizes) ==
  CASE policy = "repo" -> repoRings(ringSizes)
    [] policy = "flat" -> 1
    [] OTHER -> 0

(***************************************************************************)
(* getNumYears and scoreArrangement                                        *)
(***************************************************************************)
\* [...this.participants.values()].reduce((prev, arr) => Math.max(prev, arr.length), 0)
RECURSIVE MaxLength(_, _)
MaxLength(history, keys) ==
  IF keys = {}
    THEN 0
    ELSE LET k == CHOOSE k \in keys : TRUE
         IN Max(Len(history[k]), MaxLength(history, keys \ {k}))

\* getNumYears(): the value it returns, which is also the cache it leaves
getNumYears(history, cache) ==
  IF cache = -1 THEN MaxLength(history, DOMAIN history) ELSE cache

\* the lookup done with lastIndexOf: the most recent occurrence
FoundIndexLast(history, name, other) ==
  IF name \in DOMAIN history /\ \E i \in DOMAIN history[name] : history[name][i] = other
    THEN (CHOOSE i \in DOMAIN history[name] :
            /\ history[name][i] = other
            /\ \A j \in DOMAIN history[name] : history[name][j] = other => j <= i) - 1
    ELSE -1

\* this.participants.get(name)?.indexOf(other) ?? -1
FoundIndex(history, name, other) ==
  IF name \in DOMAIN history THEN IndexOf(history[name], other) ELSE -1

\* rings.find((ring) => ring[ring.length - 1] === giver), as an index or 0
FindRing(rings, giver) ==
  IF \E i \in DOMAIN rings : rings[i][Len(rings[i])] = giver
    THEN CHOOSE i \in DOMAIN rings :
           /\ rings[i][Len(rings[i])] = giver
           /\ \A j \in DOMAIN rings : rings[j][Len(rings[j])] = giver => i <= j
    ELSE 0

\* lines 111-116: the pair joins the ring it continues, or starts a new one
PushRing(rings, giver, receiver) ==
  LET i == FindRing(rings, giver)
  IN IF i # 0
       THEN [rings EXCEPT ![i] = Append(@, receiver)]
       ELSE Append(rings, <<giver, receiver>>)

\* lines 117-135 for one lookup: the penalty added, the cache left and the
\* call made to scoreFns.actions, if any
ActionTerm(history, st, policy, action, name, other) ==
  LET foundIndex == FoundIndex(history, name, other)
      numYears == getNumYears(history, st.cache)
  IN IF foundIndex # -1
       THEN [st EXCEPT !.totalPenalty = @ + Actions(policy, action, numYears - foundIndex),
                       !.cache = numYears,
                       !.actionsCalls = Append(@, <<action, numYears - foundIndex>>)]
       ELSE st

\* the loop of lines 110-136 from pair number i on
RECURSIVE ScorePairs(_, _, _, _, _)
ScorePairs(history, arrangement, policy, i, st) ==
  IF i > Len(arrangement)
    THEN st
    ELSE LET giver == arrangement[i][1]
             receiver == arrangement[i][2]
             st1 == [st EXCEPT !.rings = PushRing(@, giver, receiver)]
             st2 == ActionTerm(history, st1, policy, GaveTo, giver, receiver)
             st3 == ActionTerm(history, st2, policy, ReceivedFrom, receiver, giver)
         IN ScorePairs(history, arrangement, policy, i + 1, st3)

\* rings.map((x) => x.length - 1)
RingSizes(rings) == [i \in DOMAIN rings |-> Len(rings[i]) - 1]

\* lines 137-138: the ring penalty, from one call of scoreFns.rings, is added
\* to the total; the result carries the cache left and the policy calls made
ScoreResult(policy, st) ==
  [penalty |-> st.totalPenalty + Rings(policy, RingSizes(st.rings)),
   cache |-> st.cache,
   actionsCalls |-> st.actionsCalls,
   ringsCalls |-> <<RingSizes(st.rings)>>]

\* scoreArrangement(arrangement, scoreFns)
scoreArrangement(history, cache, arrangement, policy) ==
  ScoreResult(policy,
              ScorePairs(history, arrangement, policy, 1,
                         [rings |-> <<>>, totalPenalty |-> 0, cache |-> cache,
                          actionsCalls |-> <<>>]))

(***************************************************************************)
(* The optimizer: generateBestArrangement and getNumOptimalArrangements.   *)
(* Each iteration is logged as [subSeed, arrangement, penalty].            *)
(***************************************************************************)
\* let bestPenalty = Infinity
Infinity == 1000000000

\* what one iteration leaves: the stream, the cache, and the log entry
Staged(next, stagedArrangement, scored) ==
  [rng |-> next, cache |-> scored.cache,
   iteration |-> [subSeed |-> Int32(next), arrangement |-> stagedArrangement,
                  penalty |-> scored.penalty],
   actionsCalls |-> scored.actionsCalls]

\* line 97 (and 75): the staged arrangement is scored
StageScore(history, cache, next, policy, stagedArrangement) ==
  Staged(next, stagedArrangement,
         scoreArrangement(history, cache, stagedArrangement, policy))

\* lines 93-97 (and 71-75): one sub-seed is drawn with random.int32(), one
\* arrangement is generated from it and scored
Stage(history, cache, rng, policy, plist) ==
  LET next == Advance(rng)
  IN StageScore(history, cache, next, policy,
                generateArrangement(Int32(next), plist))

\* the comparison written with <=
ImprovesOrTies(stagedPenalty, bestPenalty) == stagedPenalty <= bestPenalty

\* the condition of line 98
Improves(stagedPenalty, bestPenalty) == stagedPenalty < bestPenalty

\* the loop without its break
StopsNever(bestPenalty) == FALSE

\* the condition of line 102
StopsEarly(bestPenalty) == bestPenalty = 0

\* lines 98-101: the staged arrangement replaces the incumbent when it improves
Incumbent(st, staged) ==
  [rng |-> staged.rng,
   cache |-> staged.cache,
   isNull |-> st.isNull /\ ~Improves(staged.iteration.penalty, st.bestPenalty),
   bestArrangement |-> IF Improves(staged.iteration.penalty, st.bestPenalty)
                         THEN staged.iteration.arrangement
                         ELSE st.bestArrangement,
   bestPenalty |-> IF Improves(staged.iteration.penalty, st.bestPenalty)
                     THEN staged.iteration.penalty
                     ELSE st.bestPenalty,
   trace |-> Append(st.trace, staged.iteration),
   actionsCalls |-> st.actionsCalls \o staged.actionsCalls]

\* the loop of lines 92-103 from iteration j on; BestBreak is line 102
RECURSIVE BestLoop(_, _, _, _, _, _)
RECURSIVE BestBreak(_, _, _, _, _, _)
BestLoop(history, iterations, policy, plist, j, st) ==
  IF ~(j < iterations)
    THEN st
    ELSE BestBreak(history, iterations, policy, plist, j,
                   Incumbent(st, Stage(history, st.cache, st.rng, policy, plist)))

BestBreak(history, iterations, policy, plist, j, st) ==
  IF StopsEarly(st.bestPenalty)
    THEN st
    ELSE BestLoop(history, iterations, policy, plist, j + 1, st)

\* generateBestArrangement(seed, iterations, scoring, participants): isNull says
\* that it returns null, the value bestArrangement is initialised with
generateBestArrangement(history, cache, seed, iterations, policy, plist) ==
  BestLoop(history, iterations, policy, plist, 0,
           [rng |-> SeedRandom(seed), cache |-> cache, isNull |-> TRUE,
            bestArrangement |-> <<>>, bestPenalty |-> Infinity,
            trace |-> <<>>, actionsCalls |-> <<>>])

\* lines 76-78: a staged arrangement that scores 0 is counted
Counted(st, staged) ==
  [rng |-> staged.rng,
   cache |-> staged.cache,
   optimalArrangements |-> IF staged.iteration.penalty = 0
                             THEN st.optimalArrangements + 1
                             ELSE st.optimalArrangements,
   trace |-> Append(st.trace, staged.iteration),
   actionsCalls |-> st.actionsCalls \o staged.actionsCalls]

\* the loop of lines 70-79 from iteration j on
RECURSIVE CountLoop(_, _, _, _, _, _)
CountLoop(history, iterations, policy, plist, j, st) ==
  IF ~(j < iterations)
    THEN st
    ELSE CountLoop(history, iterations, policy, plist, j + 1,
                   Counted(st, Stage(history, st.cache, st.rng, policy, plist)))

\* the count with its loop started at j = 1
getNumOptimalArrangementsFromOne(history, cache, seed, iterations, policy, plist) ==
  CountLoop(history, iterations, policy, plist, 1,
            [rng |-> SeedRandom(seed), cache |-> cache, optimalArrangements |-> 0,
             trace |-> <<>>, actionsCalls |-> <<>>])

\* getNumOptimalArrangements(seed, iterations, scoring, participants)
getNumOptimalArrangements(history, cache, seed, iterations, policy, plist) ==
  CountLoop(history, iterations, policy, plist, 0,
            [rng |-> SeedRandom(seed), cache |-> cache, optimalArrangements |-> 0,
             trace |-> <<>>, actionsCalls |-> <<>>])

(***************************************************************************)
(* applyArrangement                                                        *)
(***************************************************************************)
\* new Array(n).fill(null)
Nulls(n) == [i \in 1..n |-> Null]

\* the push without the padding loop
PadToNothing(arr, numYears) == arr

\* the while of lines 214-216: arr grows to numYears slots, never shrinks
PadTo(arr, numYears) ==
  IF Len(arr) < numYears THEN arr \o Nulls(numYears - Len(arr)) ELSE arr

\* the missing years filled with the receiver instead of null
GiverSequenceFilled(history, numYears, giver, receiver) ==
  IF giver \notin DOMAIN history
    THEN [i \in 1..(numYears + 1) |-> receiver]
    ELSE history[giver]
           \o [i \in 1..(Max(numYears - Len(history[giver]), 0) + 1) |-> receiver]

\* lines 207-218 for one pair: the giver's sequence afterwards
GiverSequence(history, numYears, giver, receiver) ==
  IF giver \notin DOMAIN history
    THEN Append(Nulls(numYears), receiver)
    ELSE Append(PadTo(history[giver], numYears), receiver)

\* a map rebuilt from the giver's entry alone
SetEntryOnly(history, giver, arr) == [k \in {giver} |-> arr]

\* this.participants with the entry of giver set to arr
SetEntry(history, giver, arr) ==
  [k \in DOMAIN history \cup {giver} |-> IF k = giver THEN arr ELSE history[k]]

\* the loop of lines 206-219 from pair number i on; both branches call
\* getNumYears before they write, so the cache is set from the first pair on
RECURSIVE ApplyPairs(_, _, _)
ApplyPairs(arrangement, i, st) ==
  IF i > Len(arrangement)
    THEN st
    ELSE LET giver == arrangement[i][1]
             receiver == arrangement[i][2]
             numYears == getNumYears(st.history, st.cache)
         IN ApplyPairs(arrangement, i + 1,
                       [history |-> SetEntry(st.history, giver,
                                             GiverSequence(st.history, numYears,
                                                           giver, receiver)),
                        cache |-> numYears])

\* the apply that returns without resetting the cache
applyArrangementNoReset(history, cache, arrangement) ==
  ApplyPairs(arrangement, 1, [history |-> history, cache |-> cache])

\* applyArrangement(arrangement): the history it leaves; line 220 resets the cache
applyArrangement(history, cache, arrangement) ==
  [history |-> ApplyPairs(arrangement, 1, [history |-> history, cache |-> cache]).history,
   cache |-> -1]

(***************************************************************************)
(* The bot after construction. *)
(***************************************************************************)
Init ==
  /\ participants = <<>>
  /\ numYearsCache = -1
  /\ call = [op |-> "new"]

\* the caller holds no result of a call
Idle == call.op \in {"new", "idle"}

\* the number of years the history holds
NumberOfYears == MaxLength(participants, DOMAIN participants)

(***************************************************************************)
(* The inputs the callers draw from.                                       *)
(***************************************************************************)
\* names.filter(...): the sublists of NameOrder, in its order
RECURSIVE SubLists(_)
SubLists(s) ==
  IF s = <<>>
    THEN {<<>>}
    ELSE LET rest == SubLists(Tail(s))
         IN rest \cup {<<Head(s)>> \o r : r \in rest}

\* generateNames(n): the first n names, for two participants or more
CallerLists == {SubSeq(NameOrder, 1, n) : n \in 2..Len(NameOrder)}

\* names.filter(...) of simulation.ts: the sublists of NameOrder, in its
\* order, that keep two participants or more
FilteredLists == {s \in SubLists(NameOrder) : Len(s) >= 2}

\* one-pair arrangements a caller writes by hand
OnePairArrangements == {<<<<"A", "B">>>>, <<<<"C", "A">>>>}

\* the arrangements passed to scoreArrangement and applyArrangement
ArrangementInputs ==
  {generateArrangement(seed, plist) : seed \in Seeds, plist \in CallerLists}
    \cup OnePairArrangements

(***************************************************************************)
(* The calls on the bot.                                                   *)
(***************************************************************************)
\* generateArrangement(seed, plist), for every list and every seed
GenerateArrangementAll ==
  /\ Idle
  /\ \E seed \in Seeds \cup SubSeeds, plist \in ParticipantLists :
       call' = [op |-> "generateArrangement", seed |-> seed, plist |-> plist,
                threw |-> FALSE, result |-> generateArrangement(seed, plist)]
  /\ UNCHANGED <<participants, numYearsCache>>

\* generateArrangement(seed, plist)
GenerateArrangement ==
  /\ Idle
  /\ \E seed \in Seeds, plist \in CallerLists :
       call' = [op |-> "generateArrangement", seed |-> seed, plist |-> plist,
                threw |-> FALSE, result |-> generateArrangement(seed, plist)]
  /\ UNCHANGED <<participants, numYearsCache>>

\* scoreArrangement(arrangement, policy)
ScoreArrangement ==
  /\ Idle
  /\ \E arrangement \in ArrangementInputs, policy \in Policies :
       \E r \in {scoreArrangement(participants, numYearsCache, arrangement, policy)} :
          /\ call' = [op |-> "scoreArrangement", arrangement |-> arrangement,
                      policy |-> policy, threw |-> FALSE, result |-> r.penalty,
                      actionsCalls |-> r.actionsCalls, ringsCalls |-> r.ringsCalls]
          /\ numYearsCache' = r.cache
  /\ UNCHANGED participants

\* generateBestArrangement(seed, iterations, policy, plist)
GenerateBestArrangement ==
  /\ Idle
  /\ \E seed \in Seeds, iterations \in Iterations, policy \in Policies,
        plist \in CallerLists :
       \E r \in {generateBestArrangement(participants, numYearsCache, seed,
                                         iterations, policy, plist)} :
          /\ call' = [op |-> "generateBestArrangement", iterations |-> iterations,
                      policy |-> policy, plist |-> plist, threw |-> FALSE,
                      isNull |-> r.isNull, result |-> r.bestArrangement,
                      trace |-> r.trace, actionsCalls |-> r.actionsCalls]
          /\ numYearsCache' = r.cache
  /\ UNCHANGED participants

\* getNumOptimalArrangements(seed, iterations, policy, plist)
GetNumOptimalArrangements ==
  /\ Idle
  /\ \E seed \in Seeds, iterations \in Iterations, policy \in Policies,
        plist \in CallerLists :
       \E r \in {getNumOptimalArrangements(participants, numYearsCache, seed,
                                           iterations, policy, plist)} :
          /\ call' = [op |-> "getNumOptimalArrangements", iterations |-> iterations,
                      policy |-> policy, plist |-> plist, threw |-> FALSE,
                      result |-> r.optimalArrangements,
                      trace |-> r.trace, actionsCalls |-> r.actionsCalls]
          /\ numYearsCache' = r.cache
  /\ UNCHANGED participants

\* applyArrangement(arrangement)
ApplyArrangement ==
  /\ Idle
  /\ NumberOfYears <= MaxYears
  /\ \E arrangement \in ArrangementInputs :
       \E r \in {applyArrangement(participants, numYearsCache, arrangement)} :
          /\ call' = [op |-> "applyArrangement", arrangement |-> arrangement,
                      threw |-> FALSE, yearsBefore |-> NumberOfYears,
                      cacheBefore |-> numYearsCache]
          /\ participants' = r.history
          /\ numYearsCache' = r.cache

\* index.ts main, lines 226-256: on one bot, with the repository's scoring,
\* getNumOptimalArrangements and then generateBestArrangement with the same
\* arguments; stagedArrangementToString then iterates the arrangement, which
\* throws a TypeError when it is null
Main ==
  /\ Idle
  /\ \E seed \in Seeds, iterations \in Iterations, plist \in CallerLists :
       \E counted \in {getNumOptimalArrangements(participants, numYearsCache, seed,
                                                 iterations, "repo", plist)} :
         \E best \in {generateBestArrangement(participants, counted.cache, seed,
                                              iterations, "repo", plist)} :
          /\ call' = [op |-> "main", iterations |-> iterations, plist |-> plist,
                      optimalArrangements |-> counted.optimalArrangements,
                      foundOptimal |-> counted.optimalArrangements > 0,
                      countTrace |-> counted.trace,
                      isNull |-> best.isNull, arrangement |-> best.bestArrangement,
                      bestTrace |-> best.trace,
                      threw |-> best.isNull]
          /\ numYearsCache' = best.cache
  /\ UNCHANGED participants

\* simulation.ts, lines 32-44, one year: generateBestArrangement with the
\* repository's scoring, scoreArrangement, applyArrangement.  A null
\* arrangement makes scoreArrangement throw a TypeError before anything is
\* applied.
SimulationYear ==
  /\ Idle
  /\ NumberOfYears <= MaxYears
  /\ \E seed \in Seeds, iterations \in Iterations, plist \in FilteredLists :
       \E best \in {generateBestArrangement(participants, numYearsCache, seed,
                                            iterations, "repo", plist)} :
         IF best.isNull
           THEN /\ call' = [op |-> "simulationYear", iterations |-> iterations,
                            plist |-> plist, threw |-> TRUE]
                /\ numYearsCache' = best.cache
                /\ UNCHANGED participants
           ELSE \E scored \in {scoreArrangement(participants, best.cache,
                                                best.bestArrangement, "repo")} :
                  \E applied \in {applyArrangement(participants, scored.cache,
                                                   best.bestArrangement)} :
                    /\ call' = [op |-> "simulationYear", iterations |-> iterations,
                                plist |-> plist, threw |-> FALSE,
                                arrangement |-> best.bestArrangement,
                                penalty |-> scored.penalty,
                                yearsBefore |-> NumberOfYears]
                    /\ participants' = applied.history
                    /\ numYearsCache' = applied.cache

\* the caller drops the result it holds and goes on
Continue ==
  /\ ~Idle
  /\ call' = [op |-> "idle"]
  /\ UNCHANGED <<participants, numYearsCache>>

(***************************************************************************)
(* Spec: the bot's interface, called in any order.                         *)
(***************************************************************************)
Next ==
  \/ GenerateArrangement
  \/ ScoreArrangement
  \/ GenerateBestArrangement
  \/ GetNumOptimalArrangements
  \/ ApplyArrangement
  \/ Continue

Spec == Init /\ [][Next]_vars

(***************************************************************************)
(* SpecGen: generateArrangement alone, over every list and every seed.     *)
(***************************************************************************)
NextGen == GenerateArrangementAll \/ Continue

SpecGen == Init /\ [][NextGen]_vars

(***************************************************************************)
(* SpecRun: the two programs of the repository, main and the simulation.   *)
(***************************************************************************)
NextRun == Main \/ SimulationYear \/ Continue

SpecRun == Init /\ [][NextRun]_vars

(***************************************************************************)
(* SpecSteps: generateArrangement statement by statement.  While it runs,  *)
(* `call` holds its locals: pc (where it is), i (the giver of the first    *)
(* loop, from 1), remainingReceivers, preSortedResult, index (the last     *)
(* index drawn, -1 before the first draw), rejected (a draw was rejected), *)
(* j (the giver of the second loop, from 1), currentGiver, seenGivers and  *)
(* result.  A draw of random() may give any index of the pool.             *)
(***************************************************************************)
Running == call.op = "generateArrangementSteps" /\ call.pc # "returned"

Returned == call.op = "generateArrangementSteps" /\ call.pc = "returned"

\* the indexes Math.floor(random() * remainingReceivers.length) can take
PoolIndexes == 0..(Cardinality(Names) - 1)

\* a condition that sends every giver to the sampling loop
NeverSingle(remainingReceivers) == FALSE

\* line 38: remainingReceivers.length === 1
SingleRemaining(remainingReceivers) == Len(remainingReceivers) = 1

\* lines 45-46 and the loop's advance: the pair is pushed, the receiver is
\* spliced out of the pool, the next giver is taken
PushPair(index) ==
  [call EXCEPT !.index = index,
               !.preSortedResult =
                  Append(@, <<call.plist[call.i], call.remainingReceivers[index + 1]>>),
               !.remainingReceivers = Splice(@, index),
               !.i = @ + 1]

\* lines 31-35: the call is entered with a duplicate-free list
BeginGenerate ==
  /\ Idle
  /\ \E plist \in ParticipantLists :
       call' = [op |-> "generateArrangementSteps", pc |-> "sample", plist |-> plist,
                i |-> 1, remainingReceivers |-> plist, preSortedResult |-> <<>>,
                index |-> -1, rejected |-> FALSE, j |-> 1, currentGiver |-> Null,
                seenGivers |-> {}, result |-> <<>>]
  /\ UNCHANGED <<participants, numYearsCache>>

\* lines 38-39, 45-46: the single remaining receiver is assigned without a draw
AssignSingle ==
  /\ Running
  /\ call.pc = "sample"
  /\ call.i <= Len(call.plist)
  /\ SingleRemaining(call.remainingReceivers)
  /\ call' = PushPair(0)
  /\ UNCHANGED <<participants, numYearsCache>>

\* lines 41-43, 45-46: one pass of the do/while with the draw giving index;
\* the loop repeats when the receiver drawn is the giver
Draw(index) ==
  /\ Running
  /\ call.pc = "sample"
  /\ call.i <= Len(call.plist)
  /\ ~SingleRemaining(call.remainingReceivers)
  /\ index < Len(call.remainingReceivers)
  /\ call' = IF call.remainingReceivers[index + 1] = call.plist[call.i]
               THEN [call EXCEPT !.index = index, !.rejected = TRUE]
               ELSE PushPair(index)
  /\ UNCHANGED <<participants, numYearsCache>>

\* lines 48-49: the first loop is over, the re-walk starts
BeginReWalk ==
  /\ Running
  /\ call.pc = "sample"
  /\ call.i > Len(call.plist)
  /\ call' = [call EXCEPT !.pc = "rewalk"]
  /\ UNCHANGED <<participants, numYearsCache>>

\* lines 50-51: the next giver of the list becomes currentGiver
ReWalkNext ==
  /\ Running
  /\ call.pc = "rewalk"
  /\ call.j <= Len(call.plist)
  /\ call' = [call EXCEPT !.pc = "walk", !.currentGiver = call.plist[call.j]]
  /\ UNCHANGED <<participants, numYearsCache>>

\* lines 52-56: one pass of the while on a giver not seen yet
WalkStep ==
  /\ Running
  /\ call.pc = "walk"
  /\ call.currentGiver \notin call.seenGivers
  /\ \E foundPair \in {FindPair(call.preSortedResult, call.currentGiver)} :
       call' = [call EXCEPT !.seenGivers = @ \cup {call.currentGiver},
                            !.result = Append(@, foundPair),
                            !.currentGiver = foundPair[2]]
  /\ UNCHANGED <<participants, numYearsCache>>

\* line 52: the while ends on a giver already seen
WalkDone ==
  /\ Running
  /\ call.pc = "walk"
  /\ call.currentGiver \in call.seenGivers
  /\ call' = [call EXCEPT !.pc = "rewalk", !.j = @ + 1]
  /\ UNCHANGED <<participants, numYearsCache>>

\* line 59: return result
Return ==
  /\ Running
  /\ call.pc = "rewalk"
  /\ call.j > Len(call.plist)
  /\ call' = [call EXCEPT !.pc = "returned"]
  /\ UNCHANGED <<participants, numYearsCache>>

\* the caller goes on after the return
ContinueReturned == Returned /\ Continue

NextSteps ==
  \/ BeginGenerate
  \/ AssignSingle
  \/ \E index \in PoolIndexes : Draw(index)
  \/ BeginReWalk
  \/ ReWalkNext
  \/ WalkStep
  \/ WalkDone
  \/ Return
  \/ ContinueReturned

\* the call keeps running once entered, and no index of the pool is withheld
\* from the draws for ever
FairSteps ==
  /\ WF_vars(AssignSingle)
  /\ \A index \in PoolIndexes : WF_vars(Draw(index))
  /\ WF_vars(BeginReWalk)
  /\ WF_vars(ReWalkNext)
  /\ WF_vars(WalkStep)
  /\ WF_vars(WalkDone)
  /\ WF_vars(Return)

SpecSteps == Init /\ [][NextSteps]_vars /\ FairSteps

(***************************************************************************)
(* SpecRings: an arrangement is generated and then scored, as one          *)
(* iteration of the searches does (lines 93-97 and 71-75), for lists of up *)
(* to four participants in every order.                                    *)
(***************************************************************************)
RingNames == {"A", "B", "C", "D"}

\* every duplicate-free list over RingNames
RingLists ==
  {s \in UNION {[1..n -> RingNames] : n \in 0..Cardinality(RingNames)} :
     NoDuplicates(s)}

\* generateArrangement(subSeed, plist), then scoreArrangement of what it returned
StageArrangement ==
  /\ Idle
  /\ \E seed \in SubSeeds, plist \in RingLists, policy \in Policies :
       \E arrangement \in {generateArrangement(seed, plist)} :
         \E r \in {scoreArrangement(participants, numYearsCache, arrangement, policy)} :
           /\ call' = [op |-> "stage", seed |-> seed, plist |-> plist,
                       policy |-> policy, arrangement |-> arrangement,
                       penalty |-> r.penalty, ringsCalls |-> r.ringsCalls]
           /\ numYearsCache' = r.cache
  /\ UNCHANGED participants

NextRings == StageArrangement \/ Continue

SpecRings == Init /\ [][NextRings]_vars
(***************************************************************************)
(* The claims.                                                             *)
(***************************************************************************)
Givers(arrangement) == [i \in DOMAIN arrangement |-> arrangement[i][1]]
Receivers(arrangement) == [i \in DOMAIN arrangement |-> arrangement[i][2]]

\* how often x occurs in the list s
Count(s, x) == Cardinality({i \in DOMAIN s : s[i] = x})

Generated == call.op = "generateArrangement"

\* C1: for every seed and every duplicate-free list of two participants or
\* more, no pair of the arrangement generateArrangement returns has
\* giver = receiver.
C1_NoSelfGift ==
  (Generated /\ Len(call.plist) >= 2) =>
    \A i \in DOMAIN call.result : call.result[i][1] # call.result[i][2]

\* C2: generateArrangement called with a list of 0 or 1 participants fails
\* with an invalid-input error; it returns no arrangement.
C2_ShortListRejected ==
  (Generated /\ Len(call.plist) < 2) => call.threw

\* C3: generateBestArrangement and getNumOptimalArrangements called with an
\* iteration budget <= 0 fail with an invalid-input error instead of
\* returning a value.
C3_NoBudgetRejected ==
  (/\ call.op \in {"generateBestArrangement", "getNumOptimalArrangements"}
   /\ call.iterations <= 0) => call.threw

\* C4: the arrangement generateArrangement returns for a duplicate-free list
\* of n participants has exactly n pairs, every participant of the list is
\* the giver of exactly one pair and the receiver of exactly one pair, and no
\* identity outside the list appears.
C4_PermutationCoverage ==
  Generated =>
    /\ Len(call.result) = Len(call.plist)
    /\ \A p \in Range(call.plist) :
         /\ Count(Givers(call.result), p) = 1
         /\ Count(Receivers(call.result), p) = 1
    /\ Range(Givers(call.result)) \subseteq Range(call.plist)
    /\ Range(Receivers(call.result)) \subseteq Range(call.plist)

\* C4's case: three participants, returned in an order of givers that is not
\* the order of the list (the re-walk followed a ring)
C4_Witness ==
  /\ Generated
  /\ Len(call.plist) = 3
  /\ Givers(call.result) # call.plist
  /\ \A i \in DOMAIN call.result : call.result[i][1] # call.result[i][2]

\* an identity occurs twice in the history sequence s
HasRepeat(s) == \E i, j \in DOMAIN s : i < j /\ s[i] = s[j] /\ s[i] # Null

\* C5: in every History Store reached by applying arrangements the bot
\* generated, no participant's history sequence contains the same identity
\* more than once.
C5_NoRepeatedIdentity ==
  \A p \in DOMAIN participants : ~HasRepeat(participants[p])

\* the arrangement pairs the giver p with a receiver p's sequence already holds
RepeatsPair(history, arrangement, p) ==
  /\ p \in DOMAIN history
  /\ \E i \in DOMAIN arrangement :
       arrangement[i][1] = p /\ arrangement[i][2] \in Range(history[p])

\* C5, amended: a history sequence without a repeated identity gets one
\* exactly when the applied arrangement, one the bot generated, pairs that
\* giver with a receiver the sequence already holds.
C5_RepeatOnlyFromRepeatedPair ==
  [][\A p \in DOMAIN participants' :
       (p \notin DOMAIN participants \/ ~HasRepeat(participants[p])) =>
         (HasRepeat(participants'[p]) <=>
            /\ call'.op = "simulationYear"
            /\ ~call'.threw
            /\ RepeatsPair(participants, call'.arrangement, p))]_vars

\* C5's case: the year just applied repeated a pair of an earlier year
C5_Witness ==
  /\ call.op = "simulationYear"
  /\ ~call.threw
  /\ \E i \in DOMAIN call.arrangement :
       Count(participants[call.arrangement[i][1]], call.arrangement[i][2]) >= 2

Penalties(trace) == [k \in DOMAIN trace |-> trace[k].penalty]

\* the first iteration of the trace whose penalty is the lowest of the trace
FirstLowest(trace) ==
  CHOOSE k \in DOMAIN trace :
    /\ \A j \in DOMAIN trace : trace[k].penalty <= trace[j].penalty
    /\ \A j \in 1..(k - 1) : trace[j].penalty # trace[k].penalty

BestReturned == call.op = "generateBestArrangement"

\* C6: for iterations >= 1, generateBestArrangement returns the arrangement
\* of the earliest executed iteration whose penalty is the minimum over the
\* executed iterations.
C6_FirstLowestWins ==
  (BestReturned /\ call.iterations >= 1) =>
    /\ ~call.isNull
    /\ Len(call.trace) >= 1
    /\ call.result = call.trace[FirstLowest(call.trace)].arrangement

\* C6's case: a later iteration generated another arrangement with the
\* incumbent's penalty, and the incumbent was returned
C6_Witness ==
  /\ BestReturned
  /\ Len(call.trace) >= 2
  /\ call.trace[1].penalty = call.trace[2].penalty
  /\ call.trace[1].arrangement # call.trace[2].arrangement
  /\ call.result = call.trace[1].arrangement

\* C7: generateBestArrangement stops at the first iteration that scores 0: no
\* iteration runs after one that scored 0, the loop ends before the budget
\* only on a score of 0, and a policy that always returns 0 runs exactly one
\* iteration.
C7_StopsAtFirstZero ==
  BestReturned =>
    /\ Len(call.trace) <= Max(call.iterations, 0)
    /\ \A k \in 1..(Len(call.trace) - 1) : call.trace[k].penalty # 0
    /\ Len(call.trace) < call.iterations =>
         call.trace[Len(call.trace)].penalty = 0
    /\ (call.policy = "zero" /\ call.iterations >= 1) => Len(call.trace) = 1

\* C7's case: budget was left when the first iteration scored 0
C7_Witness ==
  /\ BestReturned
  /\ call.policy = "zero"
  /\ call.iterations >= 2
  /\ Len(call.trace) = 1

\* C8: with the same arguments on the same bot, the two searches draw the same
\* sub-seed and generate the same arrangement at every iteration both run;
\* getNumOptimalArrangements runs the full budget and returns the number of
\* iterations that scored 0; its count is > 0 exactly when the arrangement
\* generateBestArrangement returns scores 0.
C8_SameDrawsAndCount ==
  call.op = "main" =>
    /\ Len(call.countTrace) = Max(call.iterations, 0)
    /\ Len(call.bestTrace) <= Len(call.countTrace)
    /\ \A k \in DOMAIN call.bestTrace :
         /\ call.bestTrace[k].subSeed = call.countTrace[k].subSeed
         /\ call.bestTrace[k].arrangement = call.countTrace[k].arrangement
    /\ call.optimalArrangements = Count(Penalties(call.countTrace), 0)
    /\ call.optimalArrangements > 0 <=>
         /\ ~call.isNull
         /\ scoreArrangement(participants, numYearsCache,
                             call.arrangement, "repo").penalty = 0

\* C8's case: the first iteration did not score 0 and a later one did
C8_Witness ==
  /\ call.op = "main"
  /\ Len(call.bestTrace) >= 2
  /\ call.optimalArrangements >= 1

\* C9: after applyArrangement of a non-empty arrangement with pairwise
\* distinct givers the number of years is one greater than before, and the
\* slot 1 year ago of every giver holds that giver's receiver.
C9_ApplyRoundTrip ==
  (/\ call.op = "applyArrangement"
   /\ call.arrangement # <<>>
   /\ NoDuplicates(Givers(call.arrangement))) =>
    LET numberOfYears == getNumYears(participants, numYearsCache)
    IN /\ numberOfYears = call.yearsBefore + 1
       /\ \A i \in DOMAIN call.arrangement :
            /\ call.arrangement[i][1] \in DOMAIN participants
            /\ Len(participants[call.arrangement[i][1]]) = numberOfYears
            /\ participants[call.arrangement[i][1]][numberOfYears]
                 = call.arrangement[i][2]

\* C9's case: the cache was populated before the apply, the arrangement has
\* several pairs, and one of its givers had skipped the year before
C9_Witness ==
  /\ call.op = "applyArrangement"
  /\ call.cacheBefore # -1
  /\ Len(call.arrangement) >= 2
  /\ \E i \in DOMAIN call.arrangement :
       LET s == participants[call.arrangement[i][1]]
       IN Len(s) >= 3 /\ s[1] # Null /\ s[Len(s) - 1] = Null

\* the 0-based index of the oldest occurrence of x in the history sequence s
OldestIndex(s, x) ==
  (CHOOSE i \in DOMAIN s : s[i] = x /\ \A j \in 1..(i - 1) : s[j] # x) - 1

\* the penalty of one direction: other looked up in the history of name
DirectionPenalty(policy, action, name, other) ==
  IF name \in DOMAIN participants /\ other \in Range(participants[name])
    THEN Actions(policy, action,
                 NumberOfYears - OldestIndex(participants[name], other))
    ELSE 0

\* the sum of both directions over the first n pairs
RECURSIVE PairPenalties(_, _, _)
PairPenalties(policy, arrangement, n) ==
  IF n = 0
    THEN 0
    ELSE PairPenalties(policy, arrangement, n - 1)
           + DirectionPenalty(policy, GaveTo, arrangement[n][1], arrangement[n][2])
           + DirectionPenalty(policy, ReceivedFrom, arrangement[n][2],
                              arrangement[n][1])

\* the arrangement maps its givers one-to-one onto themselves
IsPermutation(arrangement) ==
  /\ NoDuplicates(Givers(arrangement))
  /\ NoDuplicates(Receivers(arrangement))
  /\ Range(Givers(arrangement)) = Range(Receivers(arrangement))

\* the receiver of giver x
ReceiverOf(arrangement, x) ==
  arrangement[CHOOSE i \in DOMAIN arrangement : arrangement[i][1] = x][2]

\* the number of steps that lead from start back to start, x being k steps on
RECURSIVE StepsBack(_, _, _, _)
StepsBack(arrangement, start, x, k) ==
  IF ReceiverOf(arrangement, x) = start
    THEN k + 1
    ELSE StepsBack(arrangement, start, ReceiverOf(arrangement, x), k + 1)

\* the number of participants whose ring has k members
InRingsOfSize(arrangement, k) ==
  Cardinality({x \in Range(Givers(arrangement)) :
                 StepsBack(arrangement, x, x, 0) = k})

\* C10: scoreArrangement returns the sum over the pairs of the GaveTo penalty
\* of the oldest occurrence of the receiver in the giver's history and the
\* ReceivedFrom penalty of the oldest occurrence of the giver in the
\* receiver's history (0 where there is none), each at numberOfYears minus
\* the index, plus the result of one call of rings on the list of the ring
\* sizes; the example of the claim scores 15.
C10_ScoreFormula ==
  call.op = "scoreArrangement" =>
    /\ Len(call.ringsCalls) = 1
    /\ call.result
         = PairPenalties(call.policy, call.arrangement, Len(call.arrangement))
             + Rings(call.policy, call.ringsCalls[1])
    /\ IsPermutation(call.arrangement) =>
         \A k \in 1..Len(call.arrangement) :
           k * Count(call.ringsCalls[1], k) = InRingsOfSize(call.arrangement, k)
    /\ (/\ DOMAIN participants = {"A", "B"}
        /\ participants["A"] = <<"B">>
        /\ participants["B"] = <<"A">>
        /\ call.arrangement = <<<<"A", "B">>>>
        /\ call.policy = "example") => call.result = 15

\* C10's case: the example of the claim
C10_Witness ==
  /\ call.op = "scoreArrangement"
  /\ DOMAIN participants = {"A", "B"}
  /\ participants["A"] = <<"B">>
  /\ participants["B"] = <<"A">>
  /\ call.arrangement = <<<<"A", "B">>>>
  /\ call.policy = "example"
  /\ call.result = 15

\* s is a prefix of t
IsPrefix(s, t) == Len(s) <= Len(t) /\ \A i \in DOMAIN s : s[i] = t[i]

\* C11: applyArrangement only appends: every sequence that existed before the
\* call is a prefix of the same participant's sequence after it, the sequence
\* of every participant who is not a giver of the arrangement is unchanged,
\* and the only entries created are those of givers (none for a participant
\* who appears only as a receiver).
C11_AppendOnly ==
  [][call'.op = "applyArrangement" =>
       LET givers == Range(Givers(call'.arrangement))
       IN /\ DOMAIN participants' = DOMAIN participants \cup givers
          /\ \A p \in DOMAIN participants :
               /\ IsPrefix(participants[p], participants'[p])
               /\ p \notin givers => participants'[p] = participants[p]]_vars

\* C11's case: the arrangement applied has a receiver who is not a giver, one
\* participant who had a history was left alone and one giver's history of
\* one year or more was appended to
C11_Witness ==
  /\ call.op = "applyArrangement"
  /\ \E i \in DOMAIN call.arrangement :
       /\ call.arrangement[i][2] \notin Range(Givers(call.arrangement))
       /\ Len(participants[call.arrangement[i][1]]) >= 2
  /\ \E p \in DOMAIN participants :
       /\ p \notin Range(Givers(call.arrangement))
       /\ p \notin Range(Receivers(call.arrangement))
       /\ Len(participants[p]) >= 1

\* the sum of what the policy returned for the first n logged calls of actions
RECURSIVE ActionsTotal(_, _, _)
ActionsTotal(policy, actionsCalls, n) ==
  IF n = 0
    THEN 0
    ELSE ActionsTotal(policy, actionsCalls, n - 1)
           + Actions(policy, actionsCalls[n][1], actionsCalls[n][2])

\* C12: with the repository's scoring, scoreArrangement of the arrangement of
\* two participants that is the single ring A <-> B (ring sizes [2]) adds a
\* ring penalty of exactly 10 to the penalties of the pairs.
C12_TwoRingPenalty ==
  (/\ call.op = "scoreArrangement"
   /\ call.policy = "repo"
   /\ Len(call.arrangement) = 2
   /\ call.ringsCalls = <<<<2>>>>) =>
    call.result
      - ActionsTotal("repo", call.actionsCalls, Len(call.actionsCalls)) = 10

\* the calls whose record logs the calls scoreArrangement made to actions
LogsActionsCalls ==
  call.op \in {"scoreArrangement", "generateBestArrangement",
               "getNumOptimalArrangements"}

\* the lengths of the history sequences differ
UnequalLengths ==
  \E p, q \in DOMAIN participants : Len(participants[p]) # Len(participants[q])

\* C13: whatever calls were made on the bot before, every call scoreArrangement
\* makes to the policy's actions function passes a yearsAgo with
\* 1 <= yearsAgo <= numberOfYears, and the year count the bot holds in its
\* cache is never smaller than the length of a history sequence.
C13_YearsAgoInRange ==
  /\ numYearsCache # -1 =>
       \A p \in DOMAIN participants : Len(participants[p]) <= numYearsCache
  /\ LogsActionsCalls =>
       \A i \in DOMAIN call.actionsCalls :
         /\ 1 <= call.actionsCalls[i][2]
         /\ call.actionsCalls[i][2] <= NumberOfYears

\* C13's case: the sequences have unequal lengths, and scoreArrangement passed
\* both the nearest and the farthest year to actions
C13_Witness ==
  /\ call.op = "scoreArrangement"
  /\ UnequalLengths
  /\ NumberOfYears >= 2
  /\ \E i, j \in DOMAIN call.actionsCalls :
       /\ call.actionsCalls[i][2] = 1
       /\ call.actionsCalls[j][2] = NumberOfYears

\* the sampling loop is about to run for the current giver
InSamplingLoop ==
  /\ Running
  /\ call.pc = "sample"
  /\ call.i <= Len(call.plist)
  /\ ~SingleRemaining(call.remainingReceivers)

\* C14: for every duplicate-free list generateArrangement terminates under
\* fair draws: whenever the sampling loop runs, the pool holds a receiver
\* that is not the current giver; every call entered returns; and the
\* re-walk has then put every giver of the list into the result once.
C14_Terminates ==
  /\ [](InSamplingLoop =>
          \E k \in DOMAIN call.remainingReceivers :
            call.remainingReceivers[k] # call.plist[call.i])
  /\ [](Returned =>
          /\ NoDuplicates(Givers(call.result))
          /\ Range(Givers(call.result)) = Range(call.plist))
  /\ (Running ~> Returned)

\* C14's case: a call on three participants returned all three pairs after
\* a draw of the sampling loop was rejected
C14_Witness ==
  /\ Returned
  /\ Len(call.plist) = 3
  /\ call.rejected
  /\ Len(call.result) = 3

\* the pairs that do not continue the pair before them
RingStarts(arrangement) ==
  {s \in DOMAIN arrangement : s = 1 \/ arrangement[s][1] # arrangement[s - 1][2]}

\* the k-th of them
RingStart(arrangement, k) ==
  CHOOSE s \in RingStarts(arrangement) :
    Cardinality({t \in RingStarts(arrangement) : t < s}) = k - 1

\* the last pair of the run of pairs that starts at s
RingEnd(arrangement, s) ==
  CHOOSE e \in s..Len(arrangement) :
    /\ e = Len(arrangement) \/ (e + 1) \in RingStarts(arrangement)
    /\ \A t \in (s + 1)..e : t \notin RingStarts(arrangement)

\* the 1-based position of x in the list
PositionIn(plist, x) == IndexOf(plist, x) + 1

RECURSIVE SumOf(_, _)
SumOf(sizes, n) == IF n = 0 THEN 0 ELSE SumOf(sizes, n - 1) + sizes[n]

\* C15: the pairs generateArrangement returns are ring-contiguous: every run
\* of pairs in which each giver is the receiver of the pair before closes on
\* the giver it started with, and starts with the member of the run that
\* comes first in the input list; the ring list scoreArrangement builds from
\* it has one entry per run, each size is the number of participants of that
\* cycle of the giver -> receiver mapping, and the sizes sum to the number of
\* participants.
C15_RingContiguous ==
  call.op = "stage" =>
    LET arrangement == call.arrangement
        sizes == call.ringsCalls[1]
    IN /\ IsPermutation(arrangement)
       /\ \A s \in RingStarts(arrangement) :
            LET e == RingEnd(arrangement, s)
            IN /\ arrangement[e][2] = arrangement[s][1]
               /\ \A i \in s..e :
                    PositionIn(call.plist, arrangement[s][1])
                      <= PositionIn(call.plist, arrangement[i][1])
       /\ Len(sizes) = Cardinality(RingStarts(arrangement))
       /\ \A k \in DOMAIN sizes :
            LET s == RingStart(arrangement, k)
            IN /\ sizes[k] = RingEnd(arrangement, s) - s + 1
               /\ sizes[k] = StepsBack(arrangement, arrangement[s][1],
                                       arrangement[s][1], 0)
       /\ SumOf(sizes, Len(sizes)) = Len(call.plist)

\* C15's case: four participants in two rings of two, returned in an order of
\* givers that is not the order of the list
C15_Witness ==
  /\ call.op = "stage"
  /\ Len(call.plist) = 4
  /\ call.ringsCalls[1] = <<2, 2>>
  /\ Givers(call.arrangement) # call.plist
====
